---- MODULE Spec2Model ----
(***************************************************************************)
(* Inventory Management System (src/app.py): the Flask request handlers    *)
(* over the SQLite tables users and products, and the cookie session.      *)
(*                                                                         *)
(* Text is modelled as a sequence of one-character strings, so that        *)
(* str.strip(), float() and int() are computed and not assumed.            *)
(* An SQLite INTEGER is 64 bits wide and a Python int is unbounded: both   *)
(* are modelled as a sign and a decimal magnitude (most significant digit  *)
(* first, no leading zero, zero is the empty sequence).                    *)
(***************************************************************************)
EXTENDS Integers, Sequences, FiniteSets, TLC

VARIABLES booted, users, products, seq, session, req, resp

vars == <<booted, users, products, seq, session, req, resp>>

(***************************************************************************)
(* Bounds of the model.                                                    *)
(***************************************************************************)
\* The products table accepts this many INSERTs (caps sqlite_sequence).
MaxInserts == 2

(***************************************************************************)
(* Text.                                                                   *)
(***************************************************************************)
Whitespace == {" "}

Digits == <<"0", "1", "2", "3", "4", "5", "6", "7", "8", "9">>

IsDigit(c) == \E i \in DOMAIN Digits : Digits[i] = c

DigitVal(c) == (CHOOSE i \in DOMAIN Digits : Digits[i] = c) - 1

Front(s) == SubSeq(s, 1, Len(s) - 1)

RECURSIVE LStrip(_)
LStrip(s) == IF s # <<>> /\ Head(s) \in Whitespace THEN LStrip(Tail(s)) ELSE s

RECURSIVE RStrip(_)
RStrip(s) == IF s # <<>> /\ s[Len(s)] \in Whitespace THEN RStrip(Front(s)) ELSE s

\* str.strip()
Strip(s) == RStrip(LStrip(s))

\* str.lower() on the letters the inputs use
Lower(s) == [i \in DOMAIN s |-> CASE s[i] = "N" -> "n"
                                  [] s[i] = "A" -> "a"
                                  [] s[i] = "I" -> "i"
                                  [] s[i] = "F" -> "f"
                                  [] OTHER -> s[i]]

AllDigits(s) == \A i \in DOMAIN s : IsDigit(s[i])

(***************************************************************************)
(* Integers of arbitrary size: [neg, mag].                                 *)
(***************************************************************************)
RECURSIVE Normalize(_)
Normalize(m) == IF m # <<>> /\ Head(m) = 0 THEN Normalize(Tail(m)) ELSE m

\* magnitude a < magnitude b
RECURSIVE MagLess(_, _)
MagLess(a, b) ==
    IF Len(a) # Len(b) THEN Len(a) < Len(b)
    ELSE IF a = <<>> THEN FALSE
    ELSE IF Head(a) # Head(b) THEN Head(a) < Head(b)
    ELSE MagLess(Tail(a), Tail(b))

RECURSIVE MagAdd(_, _, _)
MagAdd(a, b, carry) ==
    IF a = <<>> /\ b = <<>> THEN (IF carry = 0 THEN <<>> ELSE <<carry>>)
    ELSE LET da == IF a = <<>> THEN 0 ELSE a[Len(a)]
             db == IF b = <<>> THEN 0 ELSE b[Len(b)]
             s  == da + db + carry
         IN Append(MagAdd(IF a = <<>> THEN a ELSE Front(a),
                          IF b = <<>> THEN b ELSE Front(b),
                          s \div 10), s % 10)

\* a - b for magnitudes with b <= a, before normalisation
RECURSIVE MagSubRaw(_, _, _)
MagSubRaw(a, b, borrow) ==
    IF a = <<>> THEN <<>>
    ELSE LET da == a[Len(a)]
             db == IF b = <<>> THEN 0 ELSE b[Len(b)]
             d  == da - db - borrow
         IN Append(MagSubRaw(Front(a), IF b = <<>> THEN b ELSE Front(b),
                             IF d < 0 THEN 1 ELSE 0),
                   IF d < 0 THEN d + 10 ELSE d)

IntOf(neg, mag) == [neg |-> neg /\ mag # <<>>, mag |-> mag]

IntZero == IntOf(FALSE, <<>>)

IntAdd(x, y) ==
    IF x.neg = y.neg THEN IntOf(x.neg, MagAdd(x.mag, y.mag, 0))
    ELSE IF MagLess(x.mag, y.mag)
         THEN IntOf(y.neg, Normalize(MagSubRaw(y.mag, x.mag, 0)))
         ELSE IntOf(x.neg, Normalize(MagSubRaw(x.mag, y.mag, 0)))

\* x < y
IntLess(x, y) ==
    IF x.neg # y.neg THEN x.neg
    ELSE IF x.neg THEN MagLess(y.mag, x.mag) ELSE MagLess(x.mag, y.mag)

\* the integer a run of decimal digits denotes
MagOfText(s) == Normalize([i \in DOMAIN s |-> DigitVal(s[i])])

\* a small natural number as an integer of arbitrary size
RECURSIVE MagOfNat(_)
MagOfNat(n) == IF n = 0 THEN <<>> ELSE Append(MagOfNat(n \div 10), n % 10)

IntOfNat(n) == IntOf(FALSE, MagOfNat(n))

(***************************************************************************)
(* int() and float() of a form field.                                      *)
(***************************************************************************)
Signed(t) == t # <<>> /\ Head(t) \in {"+", "-"}

Unsigned(t) == IF Signed(t) THEN Tail(t) ELSE t

\* int(text): surrounding whitespace and one sign are accepted, then decimal
\* digits only. ok = FALSE is ValueError.
PyInt(text) ==
    LET t    == Strip(text)
        body == Unsigned(t)
    IN IF body # <<>> /\ AllDigits(body)
       THEN [ok |-> TRUE, val |-> IntOf(Head(t) = "-", MagOfText(body))]
       ELSE [ok |-> FALSE, val |-> IntZero]

RECURSIVE NatOfText(_)
NatOfText(s) == IF s = <<>> THEN 0 ELSE 10 * NatOfText(Front(s)) + DigitVal(s[Len(s)])

\* the digits of a fraction as thousandths
Thousandths(frac) ==
    LET d(i) == IF i <= Len(frac) THEN DigitVal(frac[i]) ELSE 0
    IN 100 * d(1) + 10 * d(2) + d(3)

FloatNaN == [cls |-> "nan", neg |-> FALSE, milli |-> 0]

FloatInf(neg) == [cls |-> "inf", neg |-> neg, milli |-> 0]

FloatFin(neg, milli) == [cls |-> "fin", neg |-> neg, milli |-> milli]

\* float(text): surrounding whitespace and one sign are accepted, then nan,
\* inf or infinity in any case, or a decimal numeral with at most one point
\* and at least one digit. A finite value is kept in thousandths with its
\* sign (so -0.0 is kept apart from 0.0). ok = FALSE is ValueError.
PyFloat(text) ==
    LET t     == Strip(text)
        neg   == t # <<>> /\ Head(t) = "-"
        body  == Unsigned(t)
        dots  == {i \in DOMAIN body : body[i] = "."}
        dot   == IF dots = {} THEN Len(body) + 1 ELSE CHOOSE i \in dots : TRUE
        whole == SubSeq(body, 1, dot - 1)
        frac  == SubSeq(body, dot + 1, Len(body))
    IN IF Lower(body) = <<"n", "a", "n">>
       THEN [ok |-> TRUE, val |-> FloatNaN]
       ELSE IF Lower(body) \in {<<"i", "n", "f">>,
                                <<"i", "n", "f", "i", "n", "i", "t", "y">>}
       THEN [ok |-> TRUE, val |-> FloatInf(neg)]
       ELSE IF /\ Cardinality(dots) <= 1
               /\ AllDigits(whole) /\ AllDigits(frac)
               /\ Len(whole) + Len(frac) > 0
       THEN [ok |-> TRUE,
             val |-> FloatFin(neg, 1000 * NatOfText(whole) + Thousandths(frac))]
       ELSE [ok |-> FALSE, val |-> FloatNaN]

\* price < 0 (every comparison with nan is False; -0.0 < 0 is False)
FloatLess0(v) ==
    \/ v.cls = "inf" /\ v.neg
    \/ v.cls = "fin" /\ v.neg /\ v.milli > 0

\* quantity < 0
IntLess0(x) == IntLess(x, IntZero)

(***************************************************************************)
(* werkzeug.security: a salted one-way hash. The digest is modelled as the *)
(* pair of the salt and the password, which is what verification recomputes*)
(***************************************************************************)
Salts == {"salt1", "salt2"}

generate_password_hash(password, salt) ==
    [salt |-> salt, digest |-> <<salt, password>>]

\* a verification that compares nothing
check_password_any(pwhash, password) == TRUE

check_password_hash(pwhash, password) ==
    pwhash.digest = <<pwhash.salt, password>>

(***************************************************************************)
(* Flashed messages and responses.                                         *)
(***************************************************************************)
Flash(cat, msg) == [cat |-> cat, msg |-> msg, arg |-> <<>>, exc |-> ""]

\* a message formatted with a product name or a username
FlashArg(cat, msg, arg) == [cat |-> cat, msg |-> msg, arg |-> arg, exc |-> ""]

\* f'An error occurred: {e}'
FlashExc(exc) ==
    [cat |-> "danger", msg |-> "An error occurred: {e}", arg |-> <<>>, exc |-> exc]

NoStats ==
    [present |-> FALSE, total_products |-> 0, total_stock |-> IntZero,
     low_stock_count |-> 0]

\* redirect(url_for(target))
Redirect(target, flashes, db) ==
    [kind |-> "redirect", target |-> target, flashes |-> flashes, db |-> db,
     listing |-> {}, stats |-> NoStats, body |-> ""]

\* render_template(template, ...) without products or stats
Render(template, flashes, db) ==
    [kind |-> "render", target |-> template, flashes |-> flashes, db |-> db,
     listing |-> {}, stats |-> NoStats, body |-> ""]

\* render_template('dashboard.html', products=..., stats=...)
RenderDashboard(flashes, listing, stats) ==
    [kind |-> "render", target |-> "dashboard.html", flashes |-> flashes,
     db |-> TRUE, listing |-> listing, stats |-> stats, body |-> ""]

\* render_template('edit_product.html', product=product)
RenderProduct(flashes, product) ==
    [kind |-> "render", target |-> "edit_product.html", flashes |-> flashes,
     db |-> TRUE, listing |-> {product}, stats |-> NoStats, body |-> ""]

\* a plain text body (create_admin)
Text(body, db) ==
    [kind |-> "text", target |-> "", flashes |-> <<>>, db |-> db,
     listing |-> {}, stats |-> NoStats, body |-> body]

(***************************************************************************)
(* SQLite: the tables of init_db and the statements the handlers execute.  *)
(* A products row is [id, product_name, category, price, quantity];        *)
(* created_at only orders the listing, which is modelled as a set.         *)
(* A users row is [id, username, password].                                *)
(***************************************************************************)
Int64Max == IntOf(FALSE, <<9, 2, 2, 3, 3, 7, 2, 0, 3, 6, 8, 5, 4, 7, 7, 5, 8, 0, 7>>)

Int64Min == IntOf(TRUE, <<9, 2, 2, 3, 3, 7, 2, 0, 3, 6, 8, 5, 4, 7, 7, 5, 8, 0, 8>>)

\* a Python int that the sqlite3 module can bind to an INTEGER parameter
FitsInt64(x) == ~IntLess(Int64Max, x) /\ ~IntLess(x, Int64Min)

\* price REAL without NOT NULL: the NULL is stored
BindsNever(price) == FALSE

\* a Python float bound to a REAL parameter: SQLite stores nan as NULL
BindsToNull(price) == price.cls = "nan"

MaxOf(S) == IF S = {} THEN 0 ELSE CHOOSE n \in S : \A m \in S : m <= n

\* id INTEGER PRIMARY KEY without AUTOINCREMENT: one more than the largest
\* rowid now in the table
NewRowidReused(rows, s) == 1 + MaxOf({r.id : r \in rows})

\* id INTEGER PRIMARY KEY AUTOINCREMENT: one more than the largest rowid the
\* table has ever held (sqlite_sequence), so that no rowid is used twice
NewRowid(rows, s) == 1 + MaxOf({s} \cup {r.id : r \in rows})

OverflowError == "Python int too large to convert to SQLite INTEGER"

NotNullPrice == "NOT NULL constraint failed: products.price"

\* INSERT INTO products (product_name, category, price, quantity) VALUES (?, ?, ?, ?)
SqlInsertProduct(rows, s, product_name, category, price, quantity) ==
    IF ~FitsInt64(quantity)
    THEN [exc |-> OverflowError, rows |-> rows, seq |-> s]
    ELSE IF BindsToNull(price)
    THEN [exc |-> NotNullPrice, rows |-> rows, seq |-> s]
    ELSE LET id == NewRowid(rows, s)
         IN [exc |-> "",
             rows |-> rows \cup {[id |-> id, product_name |-> product_name,
                                  category |-> category, price |-> price,
                                  quantity |-> quantity]},
             seq |-> id]

\* UPDATE products SET product_name = ?, category = ?, price = ?, quantity = ?
\* WHERE id = ?   (a constraint is checked only on a row that is updated)
SqlUpdateProduct(rows, id, product_name, category, price, quantity) ==
    LET hit == {r \in rows : r.id = id}
    IN IF ~FitsInt64(quantity)
       THEN [exc |-> OverflowError, rows |-> rows]
       ELSE IF hit # {} /\ BindsToNull(price)
       THEN [exc |-> NotNullPrice, rows |-> rows]
       ELSE [exc |-> "",
             rows |-> (rows \ hit) \cup
                      {[id |-> r.id, product_name |-> product_name,
                        category |-> category, price |-> price,
                        quantity |-> quantity] : r \in hit}]

\* SELECT ... FROM products WHERE id = ?  (the set is empty or one row)
SqlSelectProduct(rows, id) == {r \in rows : r.id = id}

\* DELETE FROM products WHERE id = ?
SqlDeleteProduct(rows, id) == {r \in rows : r.id # id}

\* SUM(quantity): NULL over no rows, the error 'integer overflow' when the
\* sum leaves 64 bits (stored quantities are never negative, so the sum
\* leaves 64 bits in every order of the rows or in none)
RECURSIVE SumQuantity(_)
SumQuantity(rows) ==
    IF rows = {} THEN IntZero
    ELSE LET r == CHOOSE x \in rows : TRUE
         IN IntAdd(r.quantity, SumQuantity(rows \ {r}))

SqlSum(rows) ==
    IF rows = {} THEN [null |-> TRUE, overflow |-> FALSE, val |-> IntZero]
    ELSE [null |-> FALSE, overflow |-> ~FitsInt64(SumQuantity(rows)),
          val |-> SumQuantity(rows)]

\* COALESCE(x, d)
Coalesce(x, d) == IF x.null THEN d ELSE x.val

\* INSERT OR REPLACE: the row with that username is deleted and a new one made
SqlInsertOrReplaceUser(rows, username, password) ==
    {u \in rows : u.username # username}
    \cup {[id |-> 1 + MaxOf({u.id : u \in rows}),
           username |-> username, password |-> password]}

\* INSERT OR IGNORE INTO users (username, password) VALUES (?, ?)
\* (username is UNIQUE: a row with that username makes the insert a no-op)
SqlInsertOrIgnoreUser(rows, username, password) ==
    IF \E u \in rows : u.username = username THEN rows
    ELSE rows \cup {[id |-> 1 + MaxOf({u.id : u \in rows}),
                     username |-> username, password |-> password]}

\* INSERT INTO users (username, password) VALUES (?, ?)
SqlInsertUser(rows, username, password) ==
    IF \E u \in rows : u.username = username
    THEN [exc |-> "UNIQUE constraint failed: users.username", rows |-> rows]
    ELSE [exc |-> "",
          rows |-> rows \cup {[id |-> 1 + MaxOf({u.id : u \in rows}),
                               username |-> username, password |-> password]}]

\* SELECT * FROM users WHERE username = ?
SqlSelectUser(rows, username) == {u \in rows : u.username = username}

LOW_STOCK_THRESHOLD == 10

AdminName == <<"a", "d", "m", "i", "n">>

AdminPassword == "admin123"

(***************************************************************************)
(* The inputs a client can send.                                           *)
(***************************************************************************)
Int64MaxText ==
    <<"9", "2", "2", "3", "3", "7", "2", "0", "3", "6", "8", "5", "4", "7", "7",
      "5", "8", "0", "7">>

\* request.form.get(field, ''): a missing field reads as the empty text
Names == {<<" ">>, <<" ", "G", "e", "l", " ">>}

Categories == {<<>>, <<"R", "x">>}

Prices == {<<"a", "b", "c">>, <<"-", "1">>, <<"4", ".", "5">>, <<"n", "a", "n">>}

Quantities ==
    {<<"4", ".", "5">>, <<"-", "1">>, <<"9">>, <<"1", "0">>, Int64MaxText,
     Front(Int64MaxText) \o <<"8">>}

\* Every combination of a good and a bad value of the four fields, and every
\* other price and quantity in an otherwise good form.
Forms ==
    {f \in [product_name : Names, category : Categories, price : Prices,
            quantity : Quantities] :
        \/ /\ f.price \in {<<"-", "1">>, <<"4", ".", "5">>}
           /\ f.quantity \in {<<"4", ".", "5">>, <<"9">>}
        \/ /\ f.product_name = <<" ", "G", "e", "l", " ">>
           /\ f.category = <<"R", "x">>
           /\ \/ f.price = <<"4", ".", "5">>
              \/ f.quantity = <<"9">>
              \/ f.price = <<"n", "a", "n">> /\ f.quantity \notin {<<"1", "0">>}}

NoForm == [product_name |-> <<>>, category |-> <<>>, price |-> <<>>, quantity |-> <<>>]

Usernames == {<<>>, AdminName, <<" ">> \o AdminName, <<"b", "o", "b">>}

Passwords == {"", AdminPassword, "wrong"}

\* <int:id> of the route
Ids == 1 .. (MaxInserts + 1)

Request(route, method, id, form, username, password, conn) ==
    [route |-> route, method |-> method, id |-> id, form |-> form,
     username |-> username, password |-> password, conn |-> conn]

\* a request with neither a form nor an id
Plain(route, method, conn) == Request(route, method, 0, NoForm, <<>>, "", conn)

(***************************************************************************)
(* The session cookie: user_id 0 and an empty username are the absent keys *)
(* (rowids start at 1 and a stored username is not empty).                 *)
(***************************************************************************)
SessionClear == [user_id |-> 0, username |-> <<>>]

\* 'user_id' in session
HasUserId(s) == s.user_id # SessionClear.user_id

(***************************************************************************)
(* The validation of add_product and of edit_product: the messages in the  *)
(* order they are appended, and the values as parsed.                      *)
(***************************************************************************)
PriceErrors(price) ==
    IF ~PyFloat(price).ok THEN <<"Please enter a valid price.">>
    ELSE IF FloatLess0(PyFloat(price).val) THEN <<"Price cannot be negative.">>
    ELSE <<>>

\* the quantity check without its test for a negative value
QuantityErrorsNoSign(quantity) ==
    IF ~PyInt(quantity).ok THEN <<"Please enter a valid quantity.">> ELSE <<>>

QuantityErrors(quantity) ==
    IF ~PyInt(quantity).ok THEN <<"Please enter a valid quantity.">>
    ELSE IF IntLess0(PyInt(quantity).val) THEN <<"Quantity cannot be negative.">>
    ELSE <<>>

AddValidate(form) ==
    LET product_name == Strip(form.product_name)
        category     == Strip(form.category)
    IN [product_name |-> product_name,
        category     |-> category,
        price        |-> PyFloat(form.price).val,
        quantity     |-> PyInt(form.quantity).val,
        errors       |->
            (IF product_name = <<>> THEN <<"Product name is required.">> ELSE <<>>)
            \o (IF category = <<>> THEN <<"Category is required.">> ELSE <<>>)
            \o PriceErrors(form.price)
            \o QuantityErrors(form.quantity)]

EditValidate(form) ==
    LET product_name == Strip(form.product_name)
        category     == Strip(form.category)
    IN [product_name |-> product_name,
        category     |-> category,
        price        |-> PyFloat(form.price).val,
        quantity     |-> PyInt(form.quantity).val,
        errors       |->
            (IF product_name = <<>> THEN <<"Product name is required.">> ELSE <<>>)
            \o (IF category = <<>> THEN <<"Category is required.">> ELSE <<>>)
            \o PriceErrors(form.price)
            \o QuantityErrors(form.quantity)]

\* the validation of every form a client can send, computed once
AddValidated == [form \in Forms \cup {NoForm} |-> AddValidate(form)]

EditValidated == [form \in Forms \cup {NoForm} |-> EditValidate(form)]

\* for error in errors: flash(error, 'danger')
FlashAll(errors) == [i \in DOMAIN errors |-> Flash("danger", errors[i])]

(***************************************************************************)
(* The handlers. Each action is one request, from the decorator to the     *)
(* response; req and resp record the request and what was answered.        *)
(* resp.db tells whether the handler executed a statement on the database. *)
(***************************************************************************)
\* no request is being handled
Idle == Plain("", "", TRUE)

\* the application serves requests once init_db() has run, one at a time
Ready == booted /\ req = Idle

Init ==
    /\ booted = FALSE
    /\ users = {}
    /\ products = {}
    /\ seq = 0
    /\ session = SessionClear
    /\ req = Idle
    /\ resp = Text("", FALSE)

Respond(q, r) == req' = q /\ resp' = r

\* init_db(), run when the module is loaded: at the first start on a new
\* database file and at every later start on the same file. The session
\* lives in the client's signed cookie and outlives a restart.
InitDb ==
    \E salt \in Salts :
        /\ req = Idle
        /\ users' = SqlInsertOrIgnoreUser(users, AdminName,
                                          generate_password_hash(AdminPassword, salt))
        /\ booted' = TRUE
        /\ Respond(Plain("init_db", "", TRUE),
                   Text("Database initialized and admin user ensured.", TRUE))
        /\ UNCHANGED <<products, seq, session>>

\* the decorator without its check
LoginRequiredOff(q, f) == f

\* @login_required
LoginRequired(q, f) ==
    IF ~HasUserId(session)
    THEN /\ Respond(q, Redirect("login",
                 <<Flash("warning", "Please login to access this page.")>>, FALSE))
         /\ UNCHANGED <<booted, users, products, seq, session>>
    ELSE f

\* GET /
Index ==
    /\ Ready
    /\ Respond(Plain("index", "GET", TRUE),
               Redirect(IF HasUserId(session) THEN "dashboard" ELSE "login",
                        <<>>, FALSE))
    /\ UNCHANGED <<booted, users, products, seq, session>>

\* GET and POST /login
Login ==
    \E method \in {"GET", "POST"}, username \in Usernames,
       password \in Passwords, conn \in BOOLEAN :
        LET q    == IF method = "POST"
                    THEN Request("login", method, 0, NoForm, username, password, conn)
                    ELSE Plain("login", method, conn)
            name == Strip(username)
            user == SqlSelectUser(users, name)
        IN /\ Ready
           /\ method = "GET" => username = <<>> /\ password = ""
           \* the connection is opened only on the path that verifies
           /\ ~conn => ~HasUserId(session) /\ method = "POST"
                        /\ name # <<>> /\ password # ""
           /\ UNCHANGED <<booted, users, products, seq>>
           /\ IF HasUserId(session)
              THEN /\ Respond(q, Redirect("dashboard", <<>>, FALSE))
                   /\ UNCHANGED session
              ELSE IF method = "GET"
              THEN /\ Respond(q, Render("login.html", <<>>, FALSE))
                   /\ UNCHANGED session
              ELSE IF name = <<>> \/ password = ""
              THEN /\ Respond(q, Render("login.html",
                        <<Flash("danger", "Please enter both username and password.")>>,
                        FALSE))
                   /\ UNCHANGED session
              ELSE IF ~conn
              THEN /\ Respond(q, Render("login.html",
                        <<Flash("danger",
                                "Database connection error. Please try again later.")>>,
                        FALSE))
                   /\ UNCHANGED session
              ELSE IF \E u \in user : check_password_hash(u.password, password)
              THEN LET u == CHOOSE x \in user : TRUE
                   IN /\ session' = [user_id |-> u.id, username |-> u.username]
                      /\ Respond(q, Redirect("dashboard",
                             <<FlashArg("success", "Welcome back, {username}!", name)>>,
                             TRUE))
              ELSE /\ Respond(q, Render("login.html",
                        <<Flash("danger", "Invalid username or password.")>>, TRUE))
                   /\ UNCHANGED session

\* a logout that leaves the session as it is
LogoutKeepsSession ==
    /\ Ready
    /\ Respond(Plain("logout", "GET", TRUE),
               Redirect("login",
                   <<Flash("info", "You have been logged out successfully.")>>, FALSE))
    /\ UNCHANGED <<booted, users, products, seq, session>>

\* GET /logout
Logout ==
    /\ Ready
    /\ session' = SessionClear
    /\ Respond(Plain("logout", "GET", TRUE),
               Redirect("login",
                   <<Flash("info", "You have been logged out successfully.")>>, FALSE))
    /\ UNCHANGED <<booted, users, products, seq>>

\* app.permanent_session_lifetime and session.permanent = True: the cookie of
\* a session that outlived its lifetime is no longer accepted
SessionExpire ==
    /\ Ready
    /\ HasUserId(session)
    /\ session' = SessionClear
    /\ Respond(Plain("expire", "", TRUE), Text("", FALSE))
    /\ UNCHANGED <<booted, users, products, seq>>

DbError == Flash("danger", "Database connection error.")

\* the flag with <= for <
IsLowStockInclusive(product) ==
    ~IntLess(IntOfNat(LOW_STOCK_THRESHOLD), product.quantity)

\* product['is_low_stock'] = product['quantity'] < LOW_STOCK_THRESHOLD
IsLowStock(product) == IntLess(product.quantity, IntOfNat(LOW_STOCK_THRESHOLD))

\* SELECT COUNT(*) ... FROM products WHERE quantity < ?
LowStockCount(rows) ==
    Cardinality({r \in rows : IntLess(r.quantity, IntOfNat(LOW_STOCK_THRESHOLD))})

\* SELECT COUNT(*) as total_products, COALESCE(SUM(quantity), 0) as total_stock
DashboardStats(rows) ==
    [present         |-> TRUE,
     total_products  |-> Cardinality(rows),
     total_stock     |-> Coalesce(SqlSum(rows), IntZero),
     low_stock_count |-> LowStockCount(rows)]

DashboardListing(rows) ==
    {[id |-> r.id, product_name |-> r.product_name, category |-> r.category,
      price |-> r.price, quantity |-> r.quantity,
      is_low_stock |-> IsLowStock(r)] : r \in rows}

\* GET /dashboard
Dashboard ==
    \E conn \in BOOLEAN :
        LET q == Plain("dashboard", "GET", conn)
        IN /\ Ready
           /\ ~conn => HasUserId(session)
           /\ LoginRequired(q,
                /\ Respond(q,
                     IF ~conn
                     THEN Render("dashboard.html", <<DbError>>, FALSE)
                     ELSE IF SqlSum(products).overflow
                     THEN Render("dashboard.html", <<FlashExc("integer overflow")>>, TRUE)
                     ELSE RenderDashboard(<<>>, DashboardListing(products),
                                          DashboardStats(products)))
                /\ UNCHANGED <<booted, users, products, seq, session>>)

\* GET and POST /add_product
AddProduct ==
    \E method \in {"GET", "POST"}, form \in Forms \cup {NoForm}, conn \in BOOLEAN :
        LET q == Request("add_product", method, 0, form, <<>>, "", conn)
            v == AddValidated[form]
            r == SqlInsertProduct(products, seq, v.product_name, v.category,
                                  v.price, v.quantity)
        IN /\ Ready
           /\ (method = "GET") = (form = NoForm)
           /\ ~conn => HasUserId(session) /\ method = "POST" /\ v.errors = <<>>
           /\ LoginRequired(q,
                /\ UNCHANGED <<booted, users, session>>
                /\ IF method = "GET"
                   THEN /\ Respond(q, Render("add_product.html", <<>>, FALSE))
                        /\ UNCHANGED <<products, seq>>
                   ELSE IF v.errors # <<>>
                   THEN /\ Respond(q, Render("add_product.html", FlashAll(v.errors),
                                             FALSE))
                        /\ UNCHANGED <<products, seq>>
                   ELSE IF ~conn
                   THEN /\ Respond(q, Render("add_product.html", <<DbError>>, FALSE))
                        /\ UNCHANGED <<products, seq>>
                   ELSE IF r.exc # ""
                   THEN /\ Respond(q, Render("add_product.html", <<FlashExc(r.exc)>>,
                                             TRUE))
                        /\ UNCHANGED <<products, seq>>
                   ELSE /\ r.seq <= MaxInserts
                        /\ products' = r.rows
                        /\ seq' = r.seq
                        /\ Respond(q, Redirect("dashboard",
                               <<FlashArg("success",
                                          "Product \"{product_name}\" added successfully!",
                                          v.product_name)>>, TRUE)))

\* GET and POST /edit_product/<int:id>
EditProduct ==
    \E id \in Ids, method \in {"GET", "POST"}, form \in Forms \cup {NoForm},
       conn \in BOOLEAN :
        LET q   == Request("edit_product", method, id, form, <<>>, "", conn)
            v   == EditValidated[form]
            row == SqlSelectProduct(products, id)
            r   == SqlUpdateProduct(products, id, v.product_name, v.category,
                                    v.price, v.quantity)
        IN /\ Ready
           /\ (method = "GET") = (form = NoForm)
           \* without a connection the handler returns before it reads the
           \* form: one form stands for all
           /\ ~conn => HasUserId(session)
                        /\ form \in {NoForm, CHOOSE f \in Forms : TRUE}
           /\ LoginRequired(q,
                /\ UNCHANGED <<booted, users, seq, session>>
                /\ IF ~conn
                   THEN /\ Respond(q, Redirect("dashboard", <<DbError>>, FALSE))
                        /\ UNCHANGED products
                   ELSE IF method = "POST" /\ v.errors # <<>>
                   THEN \* dict(cursor.fetchone()) raises TypeError on no row
                        /\ Respond(q,
                             IF row = {}
                             THEN Redirect("dashboard",
                                      Append(FlashAll(v.errors),
                                             FlashExc("'NoneType' object is not iterable")),
                                      TRUE)
                             ELSE RenderProduct(FlashAll(v.errors),
                                                CHOOSE x \in row : TRUE))
                        /\ UNCHANGED products
                   ELSE IF method = "POST" /\ r.exc # ""
                   THEN /\ Respond(q, Redirect("dashboard", <<FlashExc(r.exc)>>, TRUE))
                        /\ UNCHANGED products
                   ELSE IF method = "POST"
                   THEN /\ products' = r.rows
                        /\ Respond(q, Redirect("dashboard",
                               <<FlashArg("success",
                                          "Product \"{product_name}\" updated successfully!",
                                          v.product_name)>>, TRUE))
                   ELSE IF row = {}
                   THEN /\ Respond(q, Redirect("dashboard",
                               <<Flash("danger", "Product not found.")>>, TRUE))
                        /\ UNCHANGED products
                   ELSE /\ Respond(q, RenderProduct(<<>>, CHOOSE x \in row : TRUE))
                        /\ UNCHANGED products)

\* GET /delete_product/<int:id>
DeleteProduct ==
    \E id \in Ids, conn \in BOOLEAN :
        LET q   == Request("delete_product", "GET", id, NoForm, <<>>, "", conn)
            row == SqlSelectProduct(products, id)
        IN /\ Ready
           /\ ~conn => HasUserId(session)
           /\ LoginRequired(q,
                /\ UNCHANGED <<booted, users, seq, session>>
                /\ IF ~conn
                   THEN /\ Respond(q, Redirect("dashboard", <<DbError>>, FALSE))
                        /\ UNCHANGED products
                   ELSE IF row = {}
                   THEN /\ Respond(q, Redirect("dashboard",
                               <<Flash("danger", "Product not found.")>>, TRUE))
                        /\ UNCHANGED products
                   ELSE /\ products' = SqlDeleteProduct(products, id)
                        /\ Respond(q, Redirect("dashboard",
                               <<FlashArg("success",
                                          "Product \"{product_name}\" deleted successfully!",
                                          (CHOOSE x \in row : TRUE).product_name)>>,
                               TRUE)))

\* GET /create_admin (not behind @login_required)
CreateAdmin ==
    \E conn \in BOOLEAN, salt \in Salts :
        LET q == Plain("create_admin", "GET", conn)
            r == SqlInsertUser(users, AdminName,
                               generate_password_hash(AdminPassword, salt))
        IN /\ Ready
           /\ UNCHANGED <<booted, products, seq, session>>
           /\ IF ~conn
              THEN Respond(q, Text("Database connection error.", FALSE))
                   /\ UNCHANGED users
              ELSE IF SqlSelectUser(users, AdminName) # {}
              THEN Respond(q, Text("Admin user already exists.", TRUE))
                   /\ UNCHANGED users
              ELSE IF r.exc # ""
              THEN Respond(q, Text("Error: {e}", TRUE)) /\ UNCHANGED users
              ELSE Respond(q, Text("Admin user created successfully!", TRUE))
                   /\ users' = r.rows

\* the response has been sent; the server waits for the next request
Deliver ==
    /\ req # Idle
    /\ Respond(Idle, Text("", FALSE))
    /\ UNCHANGED <<booted, users, products, seq, session>>

Next ==
    \/ Deliver
    \/ InitDb
    \/ Index
    \/ Login
    \/ Logout
    \/ SessionExpire
    \/ Dashboard
    \/ AddProduct
    \/ EditProduct
    \/ DeleteProduct
    \/ CreateAdmin

Spec == Init /\ [][Next]_vars

(***************************************************************************)
(* What the properties speak of. A handler's step starts with no request   *)
(* in hand (req = Idle), so in a step req' is the request, the unprimed    *)
(* variables are the state it met and the primed ones the state it left.   *)
(***************************************************************************)
ProductRoutes == {"dashboard", "add_product", "edit_product", "delete_product"}

StoreUnchanged == products' = products /\ seq' = seq

IdsOf(rows) == {r.id : r \in rows}

Messages(r) == {r.flashes[i].msg : i \in DOMAIN r.flashes}

Succeeded(r) == \E i \in DOMAIN r.flashes : r.flashes[i].cat = "success"

Denied ==
    Redirect("login", <<Flash("warning", "Please login to access this page.")>>, FALSE)

\* The rules of the specification, read off the text of the fields.
Blank(text) == \A i \in DOMAIN text : text[i] = " "

NonNumericPrices == {<<"a", "b", "c">>}

NegativePrices == {<<"-", "1">>}

NonIntegerQuantities == {<<"4", ".", "5">>}

NegativeQuantities == {<<"-", "1">>}

\* the messages the rules call for, one for each violated rule
RuleMessages(form) ==
    (IF Blank(form.product_name) THEN {"Product name is required."} ELSE {})
    \cup (IF Blank(form.category) THEN {"Category is required."} ELSE {})
    \cup (IF form.price \in NonNumericPrices THEN {"Please enter a valid price."} ELSE {})
    \cup (IF form.price \in NegativePrices THEN {"Price cannot be negative."} ELSE {})
    \cup (IF form.quantity \in NonIntegerQuantities
          THEN {"Please enter a valid quantity."} ELSE {})
    \cup (IF form.quantity \in NegativeQuantities
          THEN {"Quantity cannot be negative."} ELSE {})

\* a POST of a form to add_product or edit_product
IsWrite(q) == q.route \in {"add_product", "edit_product"} /\ q.method = "POST"

\* C1: a request to dashboard, add_product, edit_product or delete_product
\* made without a user_id in the session touches no table and is answered by
\* the redirect to login; the products table changes only in a step of
\* add_product, edit_product or delete_product whose session holds a user_id.
C1_Unauthenticated_Denied ==
    [][/\ (req'.route \in ProductRoutes /\ ~HasUserId(session))
            => (StoreUnchanged /\ users' = users /\ resp' = Denied /\ ~resp'.db)
       /\ ~StoreUnchanged
            => (HasUserId(session)
                /\ req'.route \in {"add_product", "edit_product", "delete_product"})
      ]_vars

\* a valid add_product POST, against a table that has a row, was denied
C1_Witness ==
    /\ req.route = "add_product" /\ req.method = "POST"
    /\ RuleMessages(req.form) = {}
    /\ ~HasUserId(session)
    /\ products # {}
    /\ resp = Denied

PriceNotNegative(v) ==
    \/ v.cls = "inf" /\ ~v.neg
    \/ v.cls = "fin" /\ (~v.neg \/ v.milli = 0)

\* C2: every stored row has price >= 0, quantity >= 0, and a product_name
\* and a category that are not empty.
C2_Rows_Valid ==
    \A r \in products :
        /\ PriceNotNegative(r.price)
        /\ ~r.quantity.neg
        /\ r.product_name # <<>> /\ ~Blank(r.product_name)
        /\ r.category # <<>> /\ ~Blank(r.category)

\* a row that was added has just been replaced by edit_product
C2_Witness ==
    /\ req.route = "edit_product" /\ req.method = "POST"
    /\ Succeeded(resp)
    /\ \E r \in products : r.id = req.id /\ r.quantity = Int64Max

\* a payload that violates no rule and that the table can store
ValidPayload(form) ==
    /\ RuleMessages(form) = {}
    /\ form.price = <<"4", ".", "5">>
    /\ form.quantity \in {<<"9">>, <<"1", "0">>, Int64MaxText}

\* C3: an edit_product POST with a valid payload for an id that is not in the
\* table reports NotFound and no success (the table is as it was: an update
\* neither adds nor removes an id).
C3_Update_Absent_NotFound ==
    (/\ req.route = "edit_product" /\ req.method = "POST"
     /\ resp # Denied /\ req.conn
     /\ ValidPayload(req.form)
     /\ req.id \notin IdsOf(products))
        => (~Succeeded(resp) /\ "Product not found." \in Messages(resp))

\* C4: an add_product or edit_product POST whose payload violates a rule
\* leaves the products table as it was, for an id in the table and for one
\* that is not; with a session and a connection, it answers with the message
\* of every violated rule and reports no success.
C4_Invalid_Leaves_Store ==
    [][(IsWrite(req') /\ RuleMessages(req'.form) # {})
          => /\ StoreUnchanged
             /\ (HasUserId(session) /\ req'.conn)
                   => /\ RuleMessages(req'.form) \subseteq Messages(resp')
                      /\ ~Succeeded(resp')
      ]_vars

\* an invalid edit of an id that is not in the table, with other rows stored
C4_Witness ==
    /\ req.route = "edit_product" /\ req.method = "POST" /\ req.conn
    /\ RuleMessages(req.form) # {}
    /\ resp # Denied
    /\ products # {}
    /\ req.id \notin IdsOf(products)

\* C5: on add_product and on edit_product alike, the messages reported are
\* exactly one for each violated rule: a payload violating k rules is
\* answered with k messages.
C5_All_Violations_Reported ==
    (IsWrite(req) /\ resp # Denied /\ req.conn /\ RuleMessages(req.form) # {})
        => /\ Messages(resp) = RuleMessages(req.form)
           /\ Len(resp.flashes) = Cardinality(RuleMessages(req.form))

\* supporting C5: the same statement, for add_product and for edit_product of
\* an id that is in the table
C5_Reported_When_Row_Exists ==
    (/\ IsWrite(req) /\ resp # Denied /\ req.conn /\ RuleMessages(req.form) # {}
     /\ (req.route = "edit_product" => req.id \in IdsOf(products)))
        => /\ Messages(resp) = RuleMessages(req.form)
           /\ Len(resp.flashes) = Cardinality(RuleMessages(req.form))

\* the user a pair of credentials belongs to: the username as stored, and a
\* password whose salted digest is the stored one
Matching(username, password) ==
    {u \in users : /\ u.username = username
                   /\ u.password.digest = <<u.password.salt, password>>}

\* ' admin ' is sent for 'admin': the form's username is trimmed
SentAs(text, username) ==
    \E i, j \in 0 .. Len(text) :
        /\ SubSeq(text, i + 1, Len(text) - j) = username
        /\ \A k \in (1 .. i) \cup ((Len(text) - j + 1) .. Len(text)) : text[k] = " "

InvalidLogin ==
    Render("login.html", <<Flash("danger", "Invalid username or password.")>>, TRUE)

\* C6: a login with a username and a password that are not empty, made
\* without a session and with a connection, either matches a stored user and
\* puts that user's id and username in the session, or is answered by one
\* and the same response and leaves the session and the tables as they were,
\* whether the username is unknown or the password is wrong; and a user_id
\* enters the session in no other step.
C6_Login_Indistinguishable ==
    [][/\ (/\ req'.route = "login" /\ req'.method = "POST" /\ req'.conn
           /\ ~HasUserId(session)
           /\ ~Blank(req'.username) /\ req'.password # "")
          => \/ \E u \in users :
                  /\ SentAs(req'.username, u.username)
                  /\ u \in Matching(u.username, req'.password)
                  /\ session' = [user_id |-> u.id, username |-> u.username]
             \/ /\ \A u \in users : ~(/\ SentAs(req'.username, u.username)
                                      /\ u \in Matching(u.username, req'.password))
                /\ resp' = InvalidLogin
                /\ session' = session
                /\ users' = users /\ StoreUnchanged
       /\ (HasUserId(session') /\ ~HasUserId(session))
          => /\ req'.route = "login" /\ req'.method = "POST"
             /\ \E u \in users :
                  /\ SentAs(req'.username, u.username)
                  /\ u \in Matching(u.username, req'.password)
                  /\ session' = [user_id |-> u.id, username |-> u.username]
      ]_vars

\* the stored user's name with a wrong password was refused
C6_Witness ==
    /\ req.route = "login" /\ req.method = "POST"
    /\ req.username = <<" ">> \o AdminName /\ req.password = "wrong"
    /\ resp = InvalidLogin
    /\ ~HasUserId(session)

Admins(rows) == {u \in rows : u.username = AdminName}

\* C7: once init_db has run the users table holds exactly one row named
\* admin, and no step (of init_db, of create_admin or of anything else)
\* changes or removes an admin row that exists.
C7_Admin_Once ==
    [][/\ booted' => Cardinality(Admins(users')) = 1
       /\ Admins(users) # {} => Admins(users') = Admins(users)
      ]_vars

\* init_db has run again, on a database that already holds products
C7_Witness ==
    /\ req.route = "init_db"
    /\ products # {}
    /\ HasUserId(session)
    /\ Cardinality(Admins(users)) = 1

\* the quantities of the rows with ids 1 .. n, added up in the order of the ids
RECURSIVE StockUpTo(_)
StockUpTo(n) ==
    IF n = 0 THEN IntZero
    ELSE IF n \in IdsOf(products)
         THEN IntAdd(StockUpTo(n - 1), (CHOOSE r \in products : r.id = n).quantity)
         ELSE StockUpTo(n - 1)

\* quantity < 10, for a quantity that is not negative: fewer than two digits
BelowTen(q) == q.neg \/ Len(q.mag) < 2

NotFound == Redirect("dashboard", <<Flash("danger", "Product not found.")>>, TRUE)

\* C9: delete_product of an id in the table removes that row and no other
\* and reports its name; of an id not in the table it reports NotFound and
\* changes nothing, as does the GET of edit_product; and an id that the
\* table has held and holds no more is never in the table again.
C9_Delete ==
    [][/\ (req'.route = "delete_product" /\ HasUserId(session) /\ req'.conn)
          => IF req'.id \in IdsOf(products)
             THEN /\ products' = {r \in products : r.id # req'.id}
                  /\ Cardinality(products') = Cardinality(products) - 1
                  /\ Succeeded(resp')
                  /\ \E r \in products :
                        r.id = req'.id /\ resp'.flashes[1].arg = r.product_name
             ELSE products' = products /\ resp' = NotFound
       /\ (/\ req'.route = "edit_product" /\ req'.method = "GET"
           /\ HasUserId(session) /\ req'.conn
           /\ req'.id \notin IdsOf(products))
          => resp' = NotFound
       /\ \A id \in Ids : (id <= seq /\ id \notin IdsOf(products))
                             => id \notin IdsOf(products')
       /\ \A id \in IdsOf(products') : id <= seq'
      ]_vars

\* a row was deleted and the row added after it is still there
C9_Witness ==
    /\ req.route = "delete_product" /\ Succeeded(resp)
    /\ req.id < seq
    /\ products # {}
    /\ req.id \notin IdsOf(products)

\* C10: a user_id enters the session only by a login that succeeds and
\* leaves it only by logout or expiry, which both clear the session; without
\* a user_id every product operation is denied; and a login request made
\* with a user_id in the session reads no table and leaves the session as it
\* is.
C10_Session_Lifecycle ==
    [][/\ (HasUserId(session') /\ ~HasUserId(session))
          => (req'.route = "login" /\ req'.method = "POST" /\ Succeeded(resp'))
       /\ (HasUserId(session) /\ session' # session)
          => req'.route \in {"logout", "expire"}
       /\ req'.route \in {"logout", "expire"} => session' = SessionClear
       /\ (~HasUserId(session) /\ req'.route \in ProductRoutes)
          => (resp' = Denied /\ StoreUnchanged /\ ~HasUserId(session'))
       /\ (HasUserId(session) /\ req'.route = "login")
          => (session' = session /\ ~resp'.db
              /\ resp' = Redirect("dashboard", <<>>, FALSE))
      ]_vars

\* after a logout, with products stored, a delete was denied
C10_Witness ==
    /\ req.route = "delete_product"
    /\ req.id \in IdsOf(products)
    /\ resp = Denied
    /\ ~HasUserId(session)

====
